---- MODULE Spec2Model ----
(***************************************************************************)
(* State-machine model of src/src/App.jsx (jpg2png): the React component   *)
(* App, its state (files, error, isConvertingAll, the settings), its event *)
(* handlers and the asynchronous tasks they start (convertOne, convertAll, *)
(* downloadAllZip).                                                        *)
(*                                                                         *)
(* A handler invoked by the user is the closure of the latest render: it   *)
(* sees the committed state.  An asynchronous task keeps the closure of    *)
(* the render in which it was started: the `files` list and the settings   *)
(* it reads are the ones captured then.  State updates made with a         *)
(* functional updater (setFiles(prev => ...)) act on the committed store.  *)
(* Continuations that run in microtasks (the loop of convertAll resuming   *)
(* after `await convertOne`) are part of the step that resolves them.      *)
(*                                                                         *)
(* Strings that the code inspects character by character (file names,      *)
(* media types) are sequences of one-character strings.                    *)
(***************************************************************************)
EXTENDS Integers, Sequences, FiniteSets, TLC

VARIABLES
    files,            \* useState([]) line 7: the item store, a sequence of items
    error,            \* useState('') line 9: the banner message
    isConvertingAll,  \* useState(false) line 8
    settings,         \* lines 12-19: outputFormat, quality, maxWidth, maxHeight, fitMode, keepAspect
    convs,            \* conversions in flight (calls of convertOne awaiting convertItem)
    runs,             \* batch runs in flight (calls of convertAll suspended in their loop)
    zips,             \* archive tasks in flight (calls of downloadAllZip)
    live,             \* object URLs created and not revoked
    revoked,          \* number of URL.revokeObjectURL calls per handle
    nextId,           \* number of items created so far (ids are unique)
    made,             \* per item, the number of output URLs created for it so far
    last              \* the step that ran last: its input, and what it handed out

vars == <<files, error, isConvertingAll, settings, convs, runs, zips,
          live, revoked, nextId, made, last>>

----------------------------------------------------------------------------
(* Program constants *)

MAX_FILES == 20
MAX_SIZE_MB == 50
BytesPerKB == 1024
MaxSizeBytes == MAX_SIZE_MB * BytesPerKB * BytesPerKB

\* Object URLs (URL.createObjectURL, lines 30 and 130) are fresh values:
\* <<id, 0>> is the one made for the preview of item id, <<id, k>> the k-th
\* one made for an output of item id.  NoUrl is the empty pngUrl (line 35).
NoUrl == <<0, 0>>
previewUrlOf(id) == <<id, 0>>
outputUrlOf(id, k) == <<id, k>>

ErrNone == ""
ErrChoose == "Please choose JPG/JPEG images up to 50 MB each."
ErrOnly == "Only 20 images allowed at once."
ErrSession == "Session cleared automatically after 60 minutes."
ErrFailed == "Failed to convert"

----------------------------------------------------------------------------
(* Character sequences *)

Min2(a, b) == IF a <= b THEN a ELSE b
Max2(a, b) == IF a >= b THEN a ELSE b

\* the /i flag of the two regular expressions: letters compare by their lower case
Lower(ch) ==
    CASE ch = "J" -> "j" [] ch = "P" -> "p" [] ch = "E" -> "e" [] ch = "G" -> "g"
      [] ch = "I" -> "i" [] ch = "M" -> "m" [] ch = "A" -> "a"
      [] OTHER -> ch

LowerSeq(s) == [k \in 1..Len(s) |-> Lower(s[k])]

\* the last n characters of s (the whole of s when it is shorter)
Suffix(s, n) == IF Len(s) <= n THEN s ELSE SubSeq(s, Len(s) - n + 1, Len(s))

ImageJpeg == <<"i","m","a","g","e","/","j","p","e","g">>
ImageJpg  == <<"i","m","a","g","e","/","j","p","g">>
DotJpg    == <<".","j","p","g">>
DotJpeg   == <<".","j","p","e","g">>

\* /^image\/(jpeg|jpg)$/i.test(f.type)
TypeIsJpeg(type) == LowerSeq(type) \in {ImageJpeg, ImageJpg}

\* /\.(jpe?g)$/i.test(f.name)
NameIsJpeg(name) ==
    \/ LowerSeq(Suffix(name, 4)) = DotJpg
    \/ LowerSeq(Suffix(name, 5)) = DotJpeg

\* name.replace(/\.(jpe?g)$/i, ''): the name without a final .jpg / .jpeg
StripJpegExt(name) ==
    IF Len(name) >= 5 /\ LowerSeq(Suffix(name, 5)) = DotJpeg
        THEN SubSeq(name, 1, Len(name) - 5)
    ELSE IF Len(name) >= 4 /\ LowerSeq(Suffix(name, 4)) = DotJpg
        THEN SubSeq(name, 1, Len(name) - 4)
    ELSE name

----------------------------------------------------------------------------
(* Files offered by the user (File objects: name, type, size; w and h are  *)
(* the pixel dimensions the decoder reports for the content)               *)

File(name, type, size) == [name |-> name, type |-> type, size |-> size, w |-> 4, h |-> 3]

SmallSize == 1000
ImagePng  == <<"i","m","a","g","e","/","p","n","g">>
TextPlain == <<"t","e","x","t","/","p","l","a","i","n">>

FileA        == File(<<"a",".","j","p","g">>, ImageJpeg, SmallSize)
FileB        == File(<<"b",".","j","p","e","g">>, ImageJpeg, SmallSize)
FileAtCap    == File(<<"c",".","j","p","g">>, ImageJpeg, MaxSizeBytes)
FileOverCap  == File(<<"d",".","j","p","g">>, ImageJpeg, MaxSizeBytes + 1)
FilePng      == File(<<"e",".","p","n","g">>, ImagePng, SmallSize)
FileExtOnly  == File(<<"f",".","J","P","e","G">>, <<>>, SmallSize)
FileTypeOnly == File(<<"g">>, <<"I","M","A","G","E","/","J","P","G">>, SmallSize)
FileDotJpg   == File(<<".","j","p","g">>, ImageJpeg, SmallSize)
FileJpgTxt   == File(<<"h",".","j","p","g",".","t","x","t">>, TextPlain, SmallSize)
FileNoDot    == File(<<"j","p","g">>, <<>>, SmallSize)
FilePngOver  == File(<<"k",".","p","n","g">>, ImagePng, MaxSizeBytes + 1)

\* n copies of file f
Copies(f, n) == [k \in 1..n |-> f]

----------------------------------------------------------------------------
(* Validator: lines 47-51 *)

isJpg(f) == TypeIsJpeg(f.type) \/ NameIsJpeg(f.name)

underSize_strict(f) == f.size < MaxSizeBytes

underSize(f) == f.size <= MaxSizeBytes

isValid(f) == isJpg(f) /\ underSize(f)

----------------------------------------------------------------------------
(* The store *)

createItem(f, id) ==
    [id |-> id, file |-> f, previewUrl |-> previewUrlOf(id), pngUrl |-> NoUrl,
     status |-> "idle", error |-> ErrNone, width |-> 0, height |-> 0]

Ids(fs) == {fs[k].id : k \in 1..Len(fs)}

\* prev.findIndex((f) => f.id === id), 1-based; 0 when absent
RECURSIVE findIndexFrom(_, _, _)
findIndexFrom(fs, id, k) ==
    IF k > Len(fs) THEN 0
    ELSE IF fs[k].id = id THEN k
    ELSE findIndexFrom(fs, id, k + 1)

findIndex(fs, id) == findIndexFrom(fs, id, 1)

\* URL.revokeObjectURL on each handle of hs in turn
RECURSIVE revokeCounts(_, _)
revokeCounts(rv, hs) ==
    IF hs = <<>> THEN rv
    ELSE LET h == Head(hs)
             n == IF h \in DOMAIN rv THEN rv[h] ELSE 0
         IN revokeCounts([x \in DOMAIN rv \cup {h} |-> IF x = h THEN n + 1 ELSE rv[x]],
                         Tail(hs))

\* revokeUrls(item), lines 169-172: the handles it releases, in order
revokeUrls_previewOnly(item) ==
    IF item.previewUrl # NoUrl THEN <<item.previewUrl>> ELSE <<>>

revokeUrls(item) ==
    (IF item.previewUrl # NoUrl THEN <<item.previewUrl>> ELSE <<>>)
    \o (IF item.pngUrl # NoUrl THEN <<item.pngUrl>> ELSE <<>>)

RECURSIVE revokeEach(_)
revokeEach(fs) == IF fs = <<>> THEN <<>> ELSE revokeUrls(Head(fs)) \o revokeEach(Tail(fs))

SeqToSet(s) == {s[k] : k \in 1..Len(s)}

moveItemIn_wraps(fs, id, delta) ==
    LET index == findIndex(fs, id) IN
    IF index = 0 THEN fs
    ELSE LET newIndex == IF index + delta < 1 THEN Len(fs)
                         ELSE IF index + delta > Len(fs) THEN 1
                         ELSE index + delta
             rest == SubSeq(fs, 1, index - 1) \o SubSeq(fs, index + 1, Len(fs))
         IN SubSeq(rest, 1, newIndex - 1) \o <<fs[index]>> \o SubSeq(rest, newIndex, Len(rest))

\* moveItem's updater, lines 134-142
moveItemIn(fs, id, delta) ==
    LET index == findIndex(fs, id) IN
    IF index = 0 THEN fs
    ELSE LET newIndex == Min2(Len(fs), Max2(1, index + delta))
             rest == SubSeq(fs, 1, index - 1) \o SubSeq(fs, index + 1, Len(fs))
         IN SubSeq(rest, 1, newIndex - 1) \o <<fs[index]>> \o SubSeq(rest, newIndex, Len(rest))

\* lines 212-214
allConverted == Len(files) > 0 /\ \A k \in 1..Len(files) : files[k].pngUrl # NoUrl
anySelected == Len(files) > 0
convertedCount == Cardinality({k \in 1..Len(files) : files[k].pngUrl # NoUrl})

\* The step that ran last, as far as the properties below refer to it: the
\* handler (op: onSelectFiles, removeOne, zipDone; "other" for the rest), the
\* item (id) or the file list (list) it was given, the batch runs whose loop
\* ended in it (ended), and the archive it handed to the browser (entries;
\* a.click(), line 207).
Step(op, id, list, ended, entries) ==
    [op |-> op, id |-> id, list |-> list, ended |-> ended, entries |-> entries]
Other == Step("other", 0, <<>>, {}, {})
RunEnded(r) == Step("other", 0, <<>>, {r}, {})

----------------------------------------------------------------------------
(* Intake: onSelectFiles, lines 43-64 (reached from handleInputChange and  *)
(* handleDrop, lines 66-76)                                                *)

toAddOf_noCap(valid, prev) == valid

toAddOf(valid, prev) ==
    LET availableSlots == MAX_FILES - Len(prev)
    IN SubSeq(valid, 1, Min2(Len(valid), Max2(0, availableSlots)))

\* the banner after a selection of at least one file: lines 44, 52-54, 59-61
bannerAfter_rejectWarns(list, valid, toAdd) ==
    IF Len(valid) < Len(list) THEN ErrChoose
    ELSE IF Len(valid) > Len(toAdd) THEN ErrOnly
    ELSE ErrNone

bannerAfter(list, valid, toAdd) ==
    IF valid = <<>> THEN ErrChoose
    ELSE IF Len(valid) > Len(toAdd) THEN ErrOnly
    ELSE ErrNone

onSelectFiles(list) ==
    LET valid == SelectSeq(list, isValid)
        toAdd == toAddOf(valid, files)
        n     == Len(toAdd)
    IN /\ last' = Step("onSelectFiles", 0, list, {}, {})
       /\ IF list = <<>> THEN
              /\ error' = ErrNone
              /\ UNCHANGED <<files, live, nextId, made>>
          ELSE IF valid = <<>> THEN
              /\ error' = bannerAfter(list, valid, toAdd)
              /\ UNCHANGED <<files, live, nextId, made>>
          ELSE
              /\ error' = bannerAfter(list, valid, toAdd)
              /\ files' = files \o [k \in 1..n |-> createItem(toAdd[k], nextId + k)]
              /\ live' = live \cup {previewUrlOf(nextId + k) : k \in 1..n}
              /\ nextId' = nextId + n
              /\ made' = [i \in 1..(nextId + n) |-> IF i <= nextId THEN made[i] ELSE 0]
       /\ UNCHANGED <<isConvertingAll, settings, convs, runs, zips, revoked>>

----------------------------------------------------------------------------
(* Removal and clearing: lines 21-27, 174-188, 216-232 *)

removeOne(id) ==
    LET index == findIndex(files, id)
        gone  == IF index = 0 THEN <<>> ELSE revokeUrls(files[index])
    IN /\ files' = SelectSeq(files, LAMBDA f : f.id # id)
       /\ live' = live \ SeqToSet(gone)
       /\ revoked' = revokeCounts(revoked, gone)
       /\ last' = Step("removeOne", id, <<>>, {}, {})
       /\ UNCHANGED <<error, isConvertingAll, settings, convs, runs, zips,
                      nextId, made>>

\* "New conversion" (line 256): setFiles([]), setError('')
reset ==
    /\ anySelected
    /\ files' = <<>>
    /\ error' = ErrNone
    /\ last' = Other
    /\ UNCHANGED <<isConvertingAll, settings, convs, runs, zips, live, revoked,
                   nextId, made>>

clearAllWith(msg) ==
    LET gone == revokeEach(files)
    IN /\ files' = <<>>
       /\ live' = live \ SeqToSet(gone)
       /\ revoked' = revokeCounts(revoked, gone)
       /\ error' = msg
       /\ last' = Other
       /\ UNCHANGED <<isConvertingAll, settings, convs, runs, zips, nextId, made>>

\* "Clear all" (line 355)
clearAll == anySelected /\ clearAllWith(ErrNone)

\* the timer armed while anySelected (lines 223-227): clearAll(), then setError
autoClear == anySelected /\ clearAllWith(ErrSession)

\* the arrow buttons of item number idx (lines 314-315)
moveItem(idx, delta) ==
    /\ idx \in 1..Len(files)
    /\ delta \in {-1, 1}
    /\ delta = -1 => idx # 1
    /\ delta = 1 => idx # Len(files)
    /\ files' = moveItemIn(files, files[idx].id, delta)
    /\ last' = Other
    /\ UNCHANGED <<error, isConvertingAll, settings, convs, runs, zips,
                   live, revoked, nextId, made>>

----------------------------------------------------------------------------
(* Geometry and encoding parameters of convertItem, lines 97-127.          *)
(* Scale factors are exact fractions <<n, d>>; <<1, 0>> is Infinity.       *)

\* quality is kept in hundredths (0.9 is 90); q is undefined for png (line 127)
NoQuality == -1
QualityUnit == 100
ScaleCap == 1000000

Infinite == <<1, 0>>
Frac(n, d) == <<n, d>>
isFinite(x) == x[2] # 0
fracLess(x, y) ==
    IF ~isFinite(x) THEN FALSE
    ELSE IF ~isFinite(y) THEN TRUE
    ELSE x[1] * y[2] < y[1] * x[2]
fracMin(x, y) == IF fracLess(y, x) THEN y ELSE x

roundMul_floor(a, x) == (a * x[1]) \div x[2]

\* Math.round(a * n / d) for a, n >= 0 and d > 0
roundMul(a, x) == (2 * a * x[1] + x[2]) \div (2 * x[2])

targetSize_stretchAsContain(cfg, srcW, srcH) ==
    LET limitW == cfg.maxWidth
        limitH == cfg.maxHeight
    IN IF limitW > 0 \/ limitH > 0 THEN
           LET scaleW == IF limitW > 0 THEN Frac(limitW, srcW) ELSE Infinite
               scaleH == IF limitH > 0 THEN Frac(limitH, srcH) ELSE Infinite
               scale == fracMin(scaleW, scaleH)
               finalScale == IF isFinite(scale) THEN fracMin(scale, Frac(ScaleCap, 1))
                             ELSE Frac(1, 1)
           IN <<Max2(1, roundMul(srcW, finalScale)), Max2(1, roundMul(srcH, finalScale))>>
       ELSE <<srcW, srcH>>

targetSize_zeroIsLimit(cfg, srcW, srcH) ==
    LET limitW == cfg.maxWidth
        limitH == cfg.maxHeight
    IN IF cfg.fitMode = "stretch" THEN <<limitW, limitH>>
       ELSE LET scale == fracMin(Frac(limitW, srcW), Frac(limitH, srcH))
            IN <<Max2(1, roundMul(srcW, scale)), Max2(1, roundMul(srcH, scale))>>

\* lines 97-116
targetSize(cfg, srcW, srcH) ==
    LET limitW == cfg.maxWidth
        limitH == cfg.maxHeight
    IN IF cfg.fitMode = "stretch" THEN
           <<IF limitW > 0 THEN limitW ELSE srcW, IF limitH > 0 THEN limitH ELSE srcH>>
       ELSE IF limitW > 0 \/ limitH > 0 THEN
           LET scaleW == IF limitW > 0 THEN Frac(limitW, srcW) ELSE Infinite
               scaleH == IF limitH > 0 THEN Frac(limitH, srcH) ELSE Infinite
               scale == IF cfg.keepAspect THEN fracMin(scaleW, scaleH) ELSE scaleW
               finalScale == IF isFinite(scale) THEN fracMin(scale, Frac(ScaleCap, 1))
                             ELSE Frac(1, 1)
               baseW == IF cfg.keepAspect THEN srcW ELSE IF limitW > 0 THEN limitW ELSE srcW
               baseH == IF cfg.keepAspect THEN srcH ELSE IF limitH > 0 THEN limitH ELSE srcH
           IN <<Max2(1, roundMul(baseW, finalScale)), Max2(1, roundMul(baseH, finalScale))>>
       ELSE <<srcW, srcH>>

\* line 126
mimeOf(outputFormat) ==
    IF outputFormat = "png" THEN "image/png"
    ELSE IF outputFormat = "webp" THEN "image/webp"
    ELSE "image/jpeg"

\* line 127
qualityOf(cfg) ==
    IF cfg.outputFormat = "png" THEN NoQuality
    ELSE Max2(0, Min2(QualityUnit, cfg.quality))

----------------------------------------------------------------------------
(* Store updates of convertOne and convertItem: lines 95, 146, 151, 153 *)

markConverting(fs, id) ==
    [k \in 1..Len(fs) |->
        IF fs[k].id = id THEN [fs[k] EXCEPT !.status = "converting", !.error = ErrNone]
        ELSE fs[k]]

markDone(fs, id, url) ==
    [k \in 1..Len(fs) |->
        IF fs[k].id = id THEN [fs[k] EXCEPT !.pngUrl = url, !.status = "done"]
        ELSE fs[k]]

markError_forgets(fs, id) == fs

markError(fs, id) ==
    [k \in 1..Len(fs) |->
        IF fs[k].id = id THEN [fs[k] EXCEPT !.status = "error", !.error = ErrFailed]
        ELSE fs[k]]

setDims(fs, id, w, h) ==
    [k \in 1..Len(fs) |->
        IF fs[k].id = id THEN [fs[k] EXCEPT !.width = w, !.height = h]
        ELSE fs[k]]

\* the smallest positive number not in `used`: names a task in flight
freeId(used) == CHOOSE n \in 1..(Cardinality(used) + 1) :
                    n \notin used /\ \A m \in 1..(n - 1) : m \in used

\* convertItem(target) up to its first await (lines 84-90): the decode of
\* target.previewUrl is under way.  run is the batch run that called
\* convertOne (0: the item's own Convert button), cfg the settings of the
\* closure.
newConv(cs, target, run, cfg) ==
    [cid |-> freeId({c.cid : c \in cs}), id |-> target.id, run |-> run,
     src |-> target.previewUrl, srcLive |-> target.previewUrl \in live,
     w |-> target.file.w, h |-> target.file.h, cfg |-> cfg,
     phase |-> "decode", mime |-> "", q |-> NoQuality, tw |-> 0, th |-> 0]

\* index of the first item of snap at or after `from` with no pngUrl; 0 if none
RECURSIVE nextPending(_, _)
nextPending(snap, from) ==
    IF from > Len(snap) THEN 0
    ELSE IF snap[from].pngUrl = NoUrl THEN from
    ELSE nextPending(snap, from + 1)

\* index of the first item of snap at or after `from` with a pngUrl; 0 if none
RECURSIVE nextConverted(_, _)
nextConverted(snap, from) ==
    IF from > Len(snap) THEN 0
    ELSE IF snap[from].pngUrl # NoUrl THEN from
    ELSE nextConverted(snap, from + 1)

\* what a closure reads of each item of its `files`: id, file, previewUrl and
\* pngUrl (lines 86, 148, 161, 195-198), as they were at that render
captured(fs) ==
    [k \in 1..Len(fs) |->
        [id |-> fs[k].id, file |-> fs[k].file, previewUrl |-> fs[k].previewUrl,
         pngUrl |-> fs[k].pngUrl]]

newZip(zs, snap) ==
    [zid |-> freeId({z.zid : z \in zs}), snap |-> snap, k |-> 0, entries |-> {}]

----------------------------------------------------------------------------
(* convertAll, lines 157-167.  A run r holds the closure's files (snap),   *)
(* its settings (cfg), the index i of the item it is awaiting, and whether *)
(* downloadAllZip of the same closure follows it (line 352).               *)

continueRun_noAwait(fs1, cs1, rs1, r, from, flag) ==
    LET j  == nextPending(r.snap, from)
        j2 == IF j = 0 THEN 0 ELSE nextPending(r.snap, j + 1)
        c1 == newConv(cs1, r.snap[j], r.rid, r.cfg)
    IN
    IF j # 0 THEN
        /\ files' = IF j2 = 0 THEN markConverting(fs1, r.snap[j].id)
                    ELSE markConverting(markConverting(fs1, r.snap[j].id), r.snap[j2].id)
        /\ convs' = IF j2 = 0 THEN cs1 \cup {c1}
                    ELSE cs1 \cup {c1, newConv(cs1 \cup {c1}, r.snap[j2], r.rid, r.cfg)}
        /\ runs' = rs1 \cup {[r EXCEPT !.i = IF j2 = 0 THEN j ELSE j2]}
        /\ isConvertingAll' = flag
        /\ zips' = zips
        /\ last' = Other
    ELSE
        /\ files' = fs1
        /\ convs' = cs1
        /\ runs' = rs1
        /\ isConvertingAll' = FALSE
        /\ zips' = IF r.thenZip THEN zips \cup {newZip(zips, r.snap)} ELSE zips
        /\ last' = RunEnded(r)

\* the loop from index `from` on, after the store became fs1, the
\* conversions in flight cs1 and the other runs rs1: the next item without
\* pngUrl in snap is started (convertOne up to its await), or the loop is over
continueRun(fs1, cs1, rs1, r, from, flag) ==
    LET j == nextPending(r.snap, from) IN
    IF j # 0 THEN
        /\ files' = markConverting(fs1, r.snap[j].id)
        /\ convs' = cs1 \cup {newConv(cs1, r.snap[j], r.rid, r.cfg)}
        /\ runs' = rs1 \cup {[r EXCEPT !.i = j]}
        /\ isConvertingAll' = flag
        /\ zips' = zips
        /\ last' = Other
    ELSE
        /\ files' = fs1
        /\ convs' = cs1
        /\ runs' = rs1
        /\ isConvertingAll' = FALSE
        /\ zips' = IF r.thenZip THEN zips \cup {newZip(zips, r.snap)} ELSE zips
        /\ last' = RunEnded(r)

finishConv_stopsOnFailure(c, fs1, ok) ==
    IF c.run = 0 THEN
        /\ files' = fs1
        /\ convs' = convs \ {c}
        /\ last' = Other
        /\ UNCHANGED <<runs, isConvertingAll, zips>>
    ELSE
        LET r  == CHOOSE x \in runs : x.rid = c.run
            r1 == IF ok THEN r ELSE [r EXCEPT !.failed = @ \cup {c.id}]
        IN continueRun(fs1, convs \ {c}, runs \ {r}, r1,
                       IF ok THEN r.i + 1 ELSE Len(r.snap) + 1, isConvertingAll)

\* convertOne returns (lines 151-154): the caller's await resolves.  ok
\* tells whether the conversion produced an output.
finishConv(c, fs1, ok) ==
    IF c.run = 0 THEN
        /\ files' = fs1
        /\ convs' = convs \ {c}
        /\ last' = Other
        /\ UNCHANGED <<runs, isConvertingAll, zips>>
    ELSE
        LET r  == CHOOSE x \in runs : x.rid = c.run
            r1 == IF ok THEN r ELSE [r EXCEPT !.failed = @ \cup {c.id}]
        IN continueRun(fs1, convs \ {c}, runs \ {r}, r1, r.i + 1, isConvertingAll)

----------------------------------------------------------------------------
(* Bounds of the model *)

MaxIds == 2          \* items created in a behaviour of Spec
MaxConvs == 2        \* conversions in flight at once
MaxRuns == 2         \* batch runs in flight at once
MaxZips == 1         \* archive tasks in flight or pending after a run
MaxIntakeIds == 21   \* items created in a behaviour of SpecIntake
IntakeWindow == 1    \* SpecIntake: the user removes and moves the first items only
BigBatch == 17       \* SpecIntake: length of the long selection
MaxBatchIds == 5     \* items created in a behaviour of SpecBatch

----------------------------------------------------------------------------
(* Conversion: the buttons and the completions of decode and encode *)

\* an item's own Convert button (lines 306-309)
convertClick(idx) ==
    /\ idx \in 1..Len(files)
    /\ files[idx].pngUrl = NoUrl
    /\ files[idx].status # "converting"
    /\ files' = markConverting(files, files[idx].id)
    /\ convs' = convs \cup {newConv(convs, files[idx], 0, settings)}
    /\ last' = Other
    /\ UNCHANGED <<error, isConvertingAll, settings, runs, zips, live, revoked,
                   nextId, made>>

startRun(thenZip) ==
    /\ continueRun(files, convs, runs,
                   [rid |-> freeId({r.rid : r \in runs}), snap |-> captured(files), cfg |-> settings,
                    i |-> 0, thenZip |-> thenZip, failed |-> {}],
                   1, TRUE)
    /\ UNCHANGED <<error, settings, live, revoked, nextId, made>>

\* "Convert All" (line 342)
convertAll ==
    /\ anySelected
    /\ ~isConvertingAll
    /\ ~allConverted
    /\ startRun(FALSE)

\* "Convert & Download All" (lines 351-352)
convertAndDownloadAll ==
    /\ anySelected
    /\ ~allConverted
    /\ startRun(TRUE)

\* img.onload (line 88): lines 92-128 run up to the await of toBlob
decodeDone(c) ==
    /\ c.phase = "decode"
    /\ c.srcLive
    /\ LET t == targetSize(c.cfg, c.w, c.h)
       IN convs' = (convs \ {c}) \cup
              {[c EXCEPT !.phase = "encode", !.mime = mimeOf(c.cfg.outputFormat),
                         !.q = qualityOf(c.cfg), !.tw = t[1], !.th = t[2]]}
    /\ files' = setDims(files, c.id, c.w, c.h)
    /\ last' = Other
    /\ UNCHANGED <<error, isConvertingAll, settings, runs, zips, live, revoked,
                   nextId, made>>

\* img.onerror (line 89): the rejection reaches the catch of convertOne
decodeFail(c) ==
    /\ c.phase = "decode"
    /\ finishConv(c, markError(files, c.id), FALSE)
    /\ UNCHANGED <<error, settings, live, revoked, nextId, made>>

\* toBlob yields a blob (lines 128-130, 151)
encodeDone(c) ==
    /\ c.phase = "encode"
    /\ finishConv(c, markDone(files, c.id, outputUrlOf(c.id, made[c.id] + 1)), TRUE)
    /\ live' = live \cup {outputUrlOf(c.id, made[c.id] + 1)}
    /\ made' = [made EXCEPT ![c.id] = @ + 1]
    /\ UNCHANGED <<error, settings, revoked, nextId>>

\* toBlob yields null (line 129): the throw reaches the catch of convertOne
encodeFail(c) ==
    /\ c.phase = "encode"
    /\ finishConv(c, markError(files, c.id), FALSE)
    /\ UNCHANGED <<error, settings, live, revoked, nextId, made>>

----------------------------------------------------------------------------
(* Archive: downloadAllZip, lines 190-210 *)

Dot == <<".">>
ImageStem == <<"i","m","a","g","e">>
PngExt == <<"p","n","g">>

\* line 292
extOf(outputFormat) ==
    IF outputFormat = "png" THEN PngExt
    ELSE IF outputFormat = "webp" THEN <<"w","e","b","p">>
    ELSE <<"j","p","g">>

stemOf(name) == IF StripJpegExt(name) = <<>> THEN ImageStem ELSE StripJpegExt(name)

\* line 293: the name of an item's own download
downloadName(name, outputFormat) == stemOf(name) \o Dot \o extOf(outputFormat)

\* line 198
entryName(name) == stemOf(name) \o Dot \o PngExt

\* folder.file(name, blob), line 199: an entry of the same name is replaced
\* (src is the file name the entry was named from)
putEntry(entries, name, url, src) ==
    {e \in entries : e.name # name} \cup {[name |-> name, url |-> url, src |-> src]}

\* "Download All (ZIP)" (line 349)
downloadAllZip ==
    /\ allConverted
    /\ zips' = zips \cup {newZip(zips, captured(files))}
    /\ last' = Other
    /\ UNCHANGED <<files, error, isConvertingAll, settings, convs, runs,
                   live, revoked, nextId, made>>

\* fetch(it.pngUrl) of the next converted item of the closure's files
\* resolves (lines 194-199)
zipFetch(z) ==
    LET j == nextConverted(z.snap, z.k + 1) IN
    /\ j # 0
    /\ z.snap[j].pngUrl \in live
    /\ zips' = (zips \ {z}) \cup
          {[z EXCEPT !.k = j,
                     !.entries = putEntry(@, entryName(z.snap[j].file.name), z.snap[j].pngUrl,
                                         z.snap[j].file.name)]}
    /\ last' = Other
    /\ UNCHANGED <<files, error, isConvertingAll, settings, convs, runs,
                   live, revoked, nextId, made>>

\* the fetch of a revoked URL rejects: downloadAllZip ends with no archive
zipFetchFail(z) ==
    LET j == nextConverted(z.snap, z.k + 1) IN
    /\ j # 0
    /\ z.snap[j].pngUrl \notin live
    /\ zips' = zips \ {z}
    /\ last' = Other
    /\ UNCHANGED <<files, error, isConvertingAll, settings, convs, runs,
                   live, revoked, nextId, made>>

\* lines 201-209: the archive is generated and handed to the browser (its
\* own object URL is created and revoked within the step)
zipDone(z) ==
    /\ nextConverted(z.snap, z.k + 1) = 0
    /\ zips' = zips \ {z}
    /\ last' = Step("zipDone", 0, <<>>, {}, z.entries)
    /\ UNCHANGED <<files, error, isConvertingAll, settings, convs, runs,
                   live, revoked, nextId, made>>

----------------------------------------------------------------------------
(* Settings: lines 329, 338.  maxWidth, maxHeight, fitMode and keepAspect  *)
(* have setters (lines 16-19) that no control calls.                       *)

Formats == {"png", "webp", "jpeg"}
Qualities == {50}

setOutputFormat(v) ==
    /\ anySelected
    /\ settings' = [settings EXCEPT !.outputFormat = v]
    /\ last' = Other
    /\ UNCHANGED <<files, error, isConvertingAll, convs, runs, zips,
                   live, revoked, nextId, made>>

setQuality(v) ==
    /\ anySelected
    /\ settings.outputFormat \in {"webp", "jpeg"}
    /\ settings' = [settings EXCEPT !.quality = v]
    /\ last' = Other
    /\ UNCHANGED <<files, error, isConvertingAll, convs, runs, zips,
                   live, revoked, nextId, made>>

----------------------------------------------------------------------------
(* Specifications *)

InitSettings ==
    [outputFormat |-> "png", quality |-> 90, maxWidth |-> 0, maxHeight |-> 0,
     fitMode |-> "contain", keepAspect |-> TRUE]

Init ==
    /\ files = <<>>
    /\ error = ErrNone
    /\ isConvertingAll = FALSE
    /\ settings = InitSettings
    /\ convs = {}
    /\ runs = {}
    /\ zips = {}
    /\ live = {}
    /\ revoked = <<>>
    /\ nextId = 0
    /\ made = <<>>
    /\ last = Other

Lists == {<<FileA>>, <<FilePng, FileDotJpg>>}
OneList == {<<FilePng, FileDotJpg, FileA>>}

selectFrom(lists, maxIds) ==
    \E list \in lists :
        /\ nextId + Len(toAddOf(SelectSeq(list, isValid), files)) <= maxIds
        /\ onSelectFiles(list)

\* room for one more conversion, batch run, archive task within the bounds
roomForConv == Cardinality(convs) < MaxConvs
roomForRun(maxRuns) == roomForConv /\ Cardinality(runs) < maxRuns
roomForZip == Cardinality(zips) + Cardinality({r \in runs : r.thenZip}) < MaxZips

\* Spec: the store and the conversions.  Every handler and continuation
\* except the two settings controls, whose only effect is on the cfg a
\* conversion encodes with; one batch run at a time.
Next ==
    \/ selectFrom(Lists, MaxIds)
    \/ \E k \in 1..Len(files) : removeOne(files[k].id)
    \/ reset
    \/ clearAll
    \/ autoClear
    \/ \E k \in 1..Len(files), delta \in {-1, 1} : moveItem(k, delta)
    \/ \E k \in 1..Len(files) : roomForConv /\ convertClick(k)
    \/ roomForRun(1) /\ convertAll
    \/ roomForRun(1) /\ roomForZip /\ convertAndDownloadAll
    \/ \E c \in convs : decodeDone(c)
    \/ \E c \in convs : decodeFail(c)
    \/ \E c \in convs : encodeDone(c)
    \/ \E c \in convs : encodeFail(c)
    \/ roomForZip /\ downloadAllZip
    \/ \E z \in zips : zipFetch(z)
    \/ \E z \in zips : zipFetchFail(z)
    \/ \E z \in zips : zipDone(z)

Spec == Init /\ [][Next]_vars

\* SpecRuns: as Spec, with batch runs overlapping (up to MaxRuns at once) on
\* the items of one selection.
NextRuns ==
    \/ selectFrom(OneList, MaxIds)
    \/ \E k \in 1..Len(files) : removeOne(files[k].id)
    \/ reset
    \/ clearAll
    \/ autoClear
    \/ \E k \in 1..Len(files), delta \in {-1, 1} : moveItem(k, delta)
    \/ \E k \in 1..Len(files) : roomForConv /\ convertClick(k)
    \/ roomForRun(MaxRuns) /\ convertAll
    \/ roomForRun(MaxRuns) /\ roomForZip /\ convertAndDownloadAll
    \/ \E c \in convs : decodeDone(c)
    \/ \E c \in convs : decodeFail(c)
    \/ \E c \in convs : encodeDone(c)
    \/ \E c \in convs : encodeFail(c)
    \/ roomForZip /\ downloadAllZip
    \/ \E z \in zips : zipFetch(z)
    \/ \E z \in zips : zipFetchFail(z)
    \/ \E z \in zips : zipDone(z)

SpecRuns == Init /\ [][NextRuns]_vars

\* SpecSettings: conversions, archives and the settings controls, on the
\* items of one selection, with one conversion started at a time and no
\* clearing or reordering of the store.
NextSettings ==
    \/ selectFrom(OneList, MaxIds)
    \/ \E k \in 1..Len(files) : removeOne(files[k].id)
    \/ \E k \in 1..Len(files) : convs = {} /\ convertClick(k)
    \/ convs = {} /\ convertAll
    \/ convs = {} /\ roomForZip /\ convertAndDownloadAll
    \/ \E c \in convs : decodeDone(c)
    \/ \E c \in convs : decodeFail(c)
    \/ \E c \in convs : encodeDone(c)
    \/ \E c \in convs : encodeFail(c)
    \/ roomForZip /\ downloadAllZip
    \/ \E z \in zips : zipFetch(z)
    \/ \E z \in zips : zipFetchFail(z)
    \/ \E z \in zips : zipDone(z)
    \/ \E v \in Formats : setOutputFormat(v)
    \/ \E v \in Qualities : setQuality(v)

SpecSettings == Init /\ [][NextSettings]_vars

\* SpecIntake: selections that fill the store to its cap and beyond, with
\* "Clear all", and removal and reordering of the first IntakeWindow items.
\* (Conversions update the store item by item and leave its length alone:
\* they are in Spec.)
MixedList == <<FileA, FileOverCap, FileB, FilePng, FileAtCap>>
AllKinds == <<FileJpgTxt, FileExtOnly, FilePngOver, FileTypeOnly, FileNoDot, FileDotJpg,
              FileOverCap, FileAtCap, FilePng, FileA, FileB>>
IntakeLists == {<<>>, <<FilePng, FileOverCap>>, MixedList, AllKinds, Copies(FileA, BigBatch)}

inWindow(k) == k \in 1..Min2(Len(files), IntakeWindow)

NextIntake ==
    \/ selectFrom(IntakeLists, MaxIntakeIds)
    \/ \E k \in 1..Len(files) : inWindow(k) /\ removeOne(files[k].id)
    \/ clearAll
    \/ \E k \in 1..Len(files), delta \in {-1, 1} : inWindow(k) /\ moveItem(k, delta)

SpecIntake == Init /\ [][NextIntake]_vars

\* SpecBatch: batch runs by "Convert All" that nothing disturbs: files are
\* selected between runs only, and the user does nothing else.
FiveFiles == <<FileA, FileB, FileAtCap, FileExtOnly, FileTypeOnly>>
BatchLists == {<<FileA, FileDotJpg>>, FiveFiles}

NextBatch ==
    \/ runs = {} /\ selectFrom(BatchLists, MaxBatchIds)
    \/ convertAll
    \/ \E c \in convs : decodeDone(c)
    \/ \E c \in convs : decodeFail(c)
    \/ \E c \in convs : encodeDone(c)
    \/ \E c \in convs : encodeFail(c)

SpecBatch == Init /\ [][NextBatch]_vars

\* SpecMove: reordering of a store of up to MaxMoveIds items that selections
\* and removals build, some of them converted.
MaxMoveIds == 4      \* items created in a behaviour of SpecMove

MoveLists == {<<FileA>>, <<FileB, FileDotJpg>>}

NextMove ==
    \/ selectFrom(MoveLists, MaxMoveIds)
    \/ \E k \in 1..Len(files) : removeOne(files[k].id)
    \/ \E k \in 1..Len(files), delta \in {-1, 1} : moveItem(k, delta)
    \/ \E k \in 1..Len(files) : convs = {} /\ convertClick(k)
    \/ \E c \in convs : decodeDone(c)
    \/ \E c \in convs : decodeFail(c)
    \/ \E c \in convs : encodeDone(c)
    \/ \E c \in convs : encodeFail(c)

SpecMove == Init /\ [][NextMove]_vars

\* SpecLive: the store and the conversions as in Spec, without archives and
\* reordering, with batch runs overlapping, and with every decode and every
\* encode eventually signalling its outcome: the browser fires onload or
\* onerror for every image (lines 87-90) and calls back for every toBlob
\* (line 128).  No fairness is assumed of the user.
decodeEnds(cid) == \E c \in convs : c.cid = cid /\ (decodeDone(c) \/ decodeFail(c))
encodeEnds(cid) == \E c \in convs : c.cid = cid /\ (encodeDone(c) \/ encodeFail(c))

NextLive ==
    \/ selectFrom(Lists, MaxIds)
    \/ \E k \in 1..Len(files) : removeOne(files[k].id)
    \/ reset
    \/ clearAll
    \/ \E k \in 1..Len(files) : roomForConv /\ convertClick(k)
    \/ roomForRun(MaxRuns) /\ convertAll
    \/ \E cid \in 1..MaxConvs : decodeEnds(cid)
    \/ \E cid \in 1..MaxConvs : encodeEnds(cid)

SpecLive ==
    /\ Init
    /\ [][NextLive]_vars
    /\ \A cid \in 1..MaxConvs : WF_vars(decodeEnds(cid)) /\ WF_vars(encodeEnds(cid))

\* SpecGeometry: convertItem on one item, for every source size and every
\* value of the settings that lines 97-127 read, drawn from bounded sets
\* (the page has no control for maxWidth, maxHeight, fitMode and keepAspect:
\* their setters of lines 16-19 are the only way to these values).
MaxSrc == 5          \* source widths and heights 1..MaxSrc, and 1200, 1600
MaxLimit == 4        \* limits 0..MaxLimit, and 800

SrcDims == (1..MaxSrc) \cup {1200, 1600}
Limits == (0..MaxLimit) \cup {800}
FitModes == {"contain", "stretch"}
FileOfSize(w, h) == [FileA EXCEPT !.w = w, !.h = h]

GeometrySettings ==
    [outputFormat : Formats, quality : {InitSettings.quality}, maxWidth : Limits,
     maxHeight : Limits, fitMode : FitModes, keepAspect : BOOLEAN]

InitGeometry ==
    /\ \E w \in SrcDims, h \in SrcDims : files = <<createItem(FileOfSize(w, h), 1)>>
    /\ error = ErrNone
    /\ isConvertingAll = FALSE
    /\ settings \in GeometrySettings
    /\ convs = {}
    /\ runs = {}
    /\ zips = {}
    /\ live = {previewUrlOf(1)}
    /\ revoked = <<>>
    /\ nextId = 1
    /\ made = <<0>>
    /\ last = Other

NextGeometry ==
    \/ \E k \in 1..Len(files) : roomForConv /\ convertClick(k)
    \/ \E c \in convs : decodeDone(c)
    \/ \E c \in convs : decodeFail(c)
    \/ \E c \in convs : encodeDone(c)
    \/ \E c \in convs : encodeFail(c)

SpecGeometry == InitGeometry /\ [][NextGeometry]_vars

----------------------------------------------------------------------------
(* Properties *)

\* the files of the items that a step appended to the store
Added == [k \in 1..(Len(files') - Len(files)) |-> files'[Len(files) + k].file]
KeepsOld == Len(files') >= Len(files) /\ SubSeq(files', 1, Len(files)) = files
SelectStep == last'.op = "onSelectFiles"

\* JPEG by media type or by extension, letter case ignored, and at most 50 MB
EndsWith(s, t) == Len(s) >= Len(t) /\ SubSeq(s, Len(s) - Len(t) + 1, Len(s)) = t
JpegAndUnderCap(f) ==
    /\ \/ LowerSeq(f.type) = ImageJpeg
       \/ LowerSeq(f.type) = ImageJpg
       \/ EndsWith(LowerSeq(f.name), DotJpg)
       \/ EndsWith(LowerSeq(f.name), DotJpeg)
    /\ f.size <= 50 * 1024 * 1024

\* C1: a selection that fits in the free capacity of the store appends
\* exactly the offered files that are JPEG (by media type image/jpeg or
\* image/jpg, or by a name ending in .jpg/.jpeg, letter case ignored) and of
\* at most 50*1024*1024 bytes, a file of exactly that size included; no
\* selection ever appends a file that fails either condition.
C1_AdmitsIffJpegUnderCap ==
    [][SelectStep =>
        /\ KeepsOld
        /\ \A k \in 1..Len(Added) : JpegAndUnderCap(Added[k])
        /\ Len(SelectSeq(last'.list, JpegAndUnderCap)) <= 20 - Len(files)
              => Added = SelectSeq(last'.list, JpegAndUnderCap)]_vars

\* every kind of file offered at once to the empty store: the six valid ones
\* are the items, the file of exactly 50 MB among them
C1_Witness ==
    /\ last.op = "onSelectFiles"
    /\ last.list = AllKinds
    /\ Len(files) = 6
    /\ files[4].file = FileAtCap
    /\ files[1].file = FileExtOnly
    /\ files[2].file = FileTypeOnly

\* C2: the store never holds more than 20 items, and a selection appends
\* exactly the first (20 - current count) valid files it offers, in the
\* order offered (all of them when they fit).
C2_CapAndFirstValid ==
    [][/\ Len(files') <= 20
       /\ SelectStep =>
            LET valid == SelectSeq(last'.list, JpegAndUnderCap)
                n == Min2(Len(valid), Max2(0, 20 - Len(files)))
            IN KeepsOld /\ Added = SubSeq(valid, 1, n)]_vars

\* a selection with six valid files offered to a store of 17: the first
\* three are appended, the store is full and the capacity warning shows
C2_Witness ==
    /\ last.op = "onSelectFiles"
    /\ last.list = AllKinds
    /\ Len(files) = 20
    /\ files[18].file = FileExtOnly
    /\ files[20].file = FileDotJpg
    /\ error = ErrOnly

isMixed(list) ==
    /\ \E k \in 1..Len(list) : JpegAndUnderCap(list[k])
    /\ \E k \in 1..Len(list) : ~JpegAndUnderCap(list[k])

\* C3 as claimed: after a selection that mixes valid and rejected files, a
\* validation error message is shown in the banner.
C3_MixedSelectionShowsError ==
    (last.op = "onSelectFiles" /\ isMixed(last.list)) => error # ErrNone

\* C3 amended: a selection that mixes valid and rejected files and fits in
\* the free capacity appends exactly the valid files and leaves the banner
\* empty: the rejected files are dropped without a message.
C3_MixedSelectionIsSilent ==
    [][(SelectStep /\ isMixed(last'.list)
            /\ Len(SelectSeq(last'.list, JpegAndUnderCap)) <= 20 - Len(files))
        => /\ KeepsOld
           /\ Added = SelectSeq(last'.list, JpegAndUnderCap)
           /\ error' = ErrNone]_vars

\* 3 valid JPEGs, 1 oversized JPEG and 1 PNG offered to the empty store
C3_Witness ==
    /\ last.op = "onSelectFiles"
    /\ last.list = MixedList
    /\ Len(files) = 3
    /\ files[1].file = FileA /\ files[2].file = FileB /\ files[3].file = FileAtCap
    /\ error = ErrNone

\* C4: when a batch run that nothing disturbed ends, every item it found
\* without output is done with an output handle if its conversion succeeded,
\* and in error with the message 'Failed to convert' and no output handle if
\* its decode or encode failed; the run went on past each failure, and the
\* counters read (N - failures) / N.
C4_FailureConfined ==
    \A r \in last.ended :
        /\ Len(files) = Len(r.snap)
        /\ \A k \in 1..Len(r.snap) :
              r.snap[k].pngUrl = NoUrl =>
                 \E j \in 1..Len(files) :
                    /\ files[j].id = r.snap[k].id
                    /\ IF files[j].id \in r.failed
                       THEN /\ files[j].status = "error"
                            /\ files[j].error = "Failed to convert"
                            /\ files[j].pngUrl = NoUrl
                       ELSE /\ files[j].status = "done"
                            /\ files[j].pngUrl # NoUrl
        /\ convertedCount = Len(files) - Cardinality(r.failed)

\* a run over 5 pending items has ended, the 2nd alone failed: items 1, 3, 4
\* and 5 are done, item 2 is in error, the counters read 4 / 5
C4_Witness ==
    \E r \in last.ended :
        /\ Len(r.snap) = 5
        /\ \A k \in 1..5 : r.snap[k].pngUrl = NoUrl
        /\ r.failed = {r.snap[2].id}
        /\ files[2].status = "error"
        /\ \A k \in {1, 3, 4, 5} : files[k].status = "done"
        /\ convertedCount = 4
        /\ Len(files) = 5

\* C5: removeOne(id) releases each handle the item holds (its preview, and
\* its output if it has one) exactly once and takes the item out of the
\* store; from then on no item whose handles were released is in the store
\* again, whatever conversion of it was in flight or is started later by a
\* batch run, and no handle is ever released twice.
C5_RemovedStaysOutReleasedOnce ==
    [][/\ last'.op = "removeOne" =>
            /\ last'.id \notin Ids(files')
            /\ \A k \in 1..Len(files) :
                  files[k].id = last'.id =>
                     /\ files[k].previewUrl \in DOMAIN revoked'
                     /\ revoked'[files[k].previewUrl] = 1
                     /\ files[k].pngUrl # NoUrl =>
                           /\ files[k].pngUrl \in DOMAIN revoked'
                           /\ revoked'[files[k].pngUrl] = 1
       /\ \A k \in 1..Len(files') : files'[k].previewUrl \notin DOMAIN revoked'
       /\ \A h \in DOMAIN revoked' : revoked'[h] = 1]_vars

\* an item that had an output was removed while another conversion of it was
\* in flight
C5_Witness ==
    /\ last.op = "removeOne"
    /\ outputUrlOf(last.id, 1) \in DOMAIN revoked
    /\ \E c \in convs : c.id = last.id /\ c.phase = "encode"

\* C6: an archive that is handed to the browser has an entry for every item
\* of the store that has an output handle at that moment.
C6_ArchiveHoldsEveryOutput ==
    last.op = "zipDone" =>
        \A k \in 1..Len(files) :
            files[k].pngUrl # NoUrl => \E e \in last.entries : e.url = files[k].pngUrl

\* C7: every entry of an archive is named by the stem of the item's file name
\* and the extension of the output format selected at that moment (png,
\* webp, jpg).
C7_Ext(outputFormat) ==
    CASE outputFormat = "png" -> <<"p","n","g">>
      [] outputFormat = "webp" -> <<"w","e","b","p">>
      [] outputFormat = "jpeg" -> <<"j","p","g">>

C7_EntryNamedByFormat ==
    last.op = "zipDone" =>
        \A e \in last.entries :
            e.name = stemOf(e.src) \o <<".">> \o C7_Ext(settings.outputFormat)

\* C8: a conversion that a batch run starts reads the settings that are
\* current when it starts (cfg is what lines 100-127 read).
C8_BatchReadsCurrentSettings ==
    [][\A d \in convs' \ convs :
          (d.phase = "decode" /\ d.run # 0) => d.cfg = settings']_vars

\* C9: an item changes status only along idle -> converting, converting ->
\* done, converting -> error, error -> converting.
C9_Lifecycle ==
    {<<"idle", "converting">>, <<"converting", "done">>, <<"converting", "error">>,
     <<"error", "converting">>}

C9_OnlyLifecycleTransitions ==
    [][\A k \in 1..Len(files), j \in 1..Len(files') :
          (files[k].id = files'[j].id /\ files[k].status # files'[j].status)
              => <<files[k].status, files'[j].status>> \in C9_Lifecycle]_vars

\* C10: a batch run has at most one conversion in flight, and it moves to an
\* item of its list only when the conversion it awaited has completed or
\* failed, taking the items without output in list order.
C10_RunIsSequential ==
    [][/\ \A r \in runs' : \A c, d \in convs' :
              (c.run = r.rid /\ d.run = r.rid) => c = d
       /\ \A r \in runs, r2 \in runs' :
              (r.rid = r2.rid /\ r.snap = r2.snap /\ r2.i # r.i) =>
                  /\ r2.i > r.i
                  /\ \A c \in convs : c.run = r.rid => c \notin convs'
                  /\ \A j \in (r.i + 1)..(r2.i - 1) : r.snap[j].pngUrl # NoUrl
                  /\ r.snap[r2.i].pngUrl = NoUrl
                  /\ \E d \in convs' : /\ d.run = r.rid
                                       /\ d.id = r.snap[r2.i].id
                                       /\ d.phase = "decode"]_vars

\* two runs overlap, one of them awaiting the second item of its list after
\* the first
C10_Witness ==
    /\ Cardinality(runs) = 2
    /\ \E r \in runs :
          /\ r.i = 2
          /\ r.snap[1].pngUrl = NoUrl
          /\ \E c \in convs : c.run = r.rid /\ c.id = r.snap[2].id

\* a conversion whose target size (tw, th) has been computed from its
\* source size (w, h) and its settings cfg
Sized(c) == c.phase = "encode"

\* round half up of n / d, for n >= 0 and d > 0
RoundDiv(n, d) == (2 * n + d) \div (2 * d)

\* C11: contain mode, aspect locked, only a width limit W, W smaller than the
\* source width: the target is W wide and max(1, round(srcH * W / srcW)) high.
C11_WidthLimitKeepsRatio ==
    \A c \in convs :
        (/\ Sized(c)
         /\ c.cfg.fitMode = "contain"
         /\ c.cfg.keepAspect
         /\ c.cfg.maxHeight = 0
         /\ c.cfg.maxWidth > 0
         /\ c.cfg.maxWidth < c.w)
        => /\ c.tw = c.cfg.maxWidth
           /\ c.th = Max2(1, RoundDiv(c.h * c.cfg.maxWidth, c.w))

\* source 1600x1200 with maxWidth 800 only, contain and locked: 800x600
C11_Witness ==
    \E c \in convs :
        /\ Sized(c)
        /\ c.cfg.fitMode = "contain" /\ c.cfg.keepAspect
        /\ c.cfg.maxWidth = 800 /\ c.cfg.maxHeight = 0
        /\ c.w = 1600 /\ c.h = 1200
        /\ c.tw = 800 /\ c.th = 600

\* C12: stretch mode: each axis of the target is its limit if the limit is
\* > 0 and the source value otherwise, whatever the source size and the
\* aspect lock are; with both limits set the target is the limits.
C12_StretchTakesLimits ==
    \A c \in convs :
        (Sized(c) /\ c.cfg.fitMode = "stretch")
        => /\ c.tw = (IF c.cfg.maxWidth > 0 THEN c.cfg.maxWidth ELSE c.w)
           /\ c.th = (IF c.cfg.maxHeight > 0 THEN c.cfg.maxHeight ELSE c.h)
           /\ (c.cfg.maxWidth > 0 /\ c.cfg.maxHeight > 0)
                 => <<c.tw, c.th>> = <<c.cfg.maxWidth, c.cfg.maxHeight>>

\* stretch with both limits, aspect locked, on a source of another ratio
C12_Witness ==
    \E c \in convs :
        /\ Sized(c)
        /\ c.cfg.fitMode = "stretch" /\ c.cfg.keepAspect
        /\ c.cfg.maxWidth = 3 /\ c.cfg.maxHeight = 800
        /\ c.w = 1600 /\ c.h = 2
        /\ c.tw = 3 /\ c.th = 800

\* C13: contain mode with no limit: the target is the source size, for every
\* output format and either value of the aspect lock.
C13_NoLimitIsSource ==
    \A c \in convs :
        (/\ Sized(c)
         /\ c.cfg.fitMode = "contain"
         /\ c.cfg.maxWidth = 0
         /\ c.cfg.maxHeight = 0)
        => c.tw = c.w /\ c.th = c.h

\* a 1600x1200 source encoded as jpeg with no limit and the lock off
C13_Witness ==
    \E c \in convs :
        /\ Sized(c)
        /\ c.cfg.fitMode = "contain" /\ ~c.cfg.keepAspect
        /\ c.cfg.maxWidth = 0 /\ c.cfg.maxHeight = 0
        /\ c.cfg.outputFormat = "jpeg" /\ c.mime = "image/jpeg"
        /\ c.w = 1600 /\ c.h = 1200
        /\ c.tw = 1600 /\ c.th = 1200

\* C17: contain mode, aspect lock off, at least one limit: the target width
\* is the width limit if given and the source width otherwise, the target
\* height is the height limit if given and the source height otherwise
\* (both at least 1).
C17_UnlockedTakesLimits ==
    \A c \in convs :
        (/\ Sized(c)
         /\ c.cfg.fitMode = "contain"
         /\ ~c.cfg.keepAspect
         /\ (c.cfg.maxWidth > 0 \/ c.cfg.maxHeight > 0))
        => /\ c.tw = Max2(1, IF c.cfg.maxWidth > 0 THEN c.cfg.maxWidth ELSE c.w)
           /\ c.th = Max2(1, IF c.cfg.maxHeight > 0 THEN c.cfg.maxHeight ELSE c.h)

\* C14: no two conversions of the same item are in flight at the same time,
\* whichever buttons (an item's Convert, Convert All, Convert & Download All)
\* started them.
C14_NoDoubleConversion ==
    \A c \in convs : \A d \in convs : c.id = d.id => c = d

\* C15: an item that enters status converting has no output handle, and an
\* output handle an item holds is never replaced by another: it stays, or it
\* is cleared and released.
C15_OutputSetOncePerAttempt ==
    [][\A k \in 1..Len(files), j \in 1..Len(files') :
          files[k].id = files'[j].id =>
             /\ (files[k].status # "converting" /\ files'[j].status = "converting")
                   => files'[j].pngUrl = NoUrl
             /\ files[k].pngUrl # NoUrl
                   => \/ files'[j].pngUrl = files[k].pngUrl
                      \/ /\ files'[j].pngUrl = NoUrl
                         /\ files[k].pngUrl \in DOMAIN revoked']_vars

\* C16: every handle that has been created and not released is the preview
\* or the output handle of an item of the store.
C16_NoOrphanHandle ==
    \A h \in live :
        \E k \in 1..Len(files) : h = files[k].previewUrl \/ h = files[k].pngUrl

\* C18: if every decode and every encode eventually signals its outcome,
\* every item in status converting is eventually done, in error, or out of
\* the store.
Converting(id) ==
    \E k \in 1..Len(files) : files[k].id = id /\ files[k].status = "converting"

Settled(id) ==
    \A k \in 1..Len(files) : files[k].id = id => files[k].status \in {"done", "error"}

C18_ConvertingEnds ==
    \A id \in 1..MaxIds : Converting(id) ~> Settled(id)

\* both outcomes have occurred and nothing is in flight: one item went from
\* converting to done, the other from converting to error
C18_Witness ==
    /\ convs = {}
    /\ Len(files) = 2
    /\ \E k \in 1..2 : files[k].status = "done" /\ files[k].pngUrl # NoUrl
    /\ \E k \in 1..2 : files[k].status = "error" /\ files[k].error = ErrFailed

\* C19: isConvertingAll is true in every state in which a batch run has
\* started and not finished.
C19_FlagCoversRuns ==
    runs # {} => isConvertingAll

\* C20: moveItem(id, delta) with delta -1 or +1 only permutes the store: the
\* item of that id lands at index clamp(index + delta) with its fields
\* unchanged, the other items keep their fields and their relative order,
\* the first item moved up and the last moved down stay where they are, and
\* an id that is not in the store leaves the store as it is.  Stated of the
\* updater on every store the page reaches, for every id and both deltas.
C20_Without(fs, id) == SelectSeq(fs, LAMBDA f : f.id # id)

C20_Clamp(k, n) == IF k < 1 THEN 1 ELSE IF k > n THEN n ELSE k

C20_MoveOnlyPermutes ==
    \A id \in 0..(MaxMoveIds + 1), delta \in {-1, 1} :
        LET out == moveItemIn(files, id, delta)
            n   == Len(files)
        IN IF id \notin Ids(files) THEN out = files
           ELSE LET index == CHOOSE k \in 1..n : files[k].id = id
                IN /\ Len(out) = n
                   /\ out[C20_Clamp(index + delta, n)] = files[index]
                   /\ C20_Without(out, id) = C20_Without(files, id)
                   /\ (index = 1 /\ delta = -1) => out = files
                   /\ (index = n /\ delta = 1) => out = files

\* a store of three items, one of them converted, that the arrow buttons
\* have put out of the order of creation
C20_Witness ==
    /\ Len(files) = 3
    /\ \E k \in 1..2 : files[k].id > files[k + 1].id
    /\ \E k \in 1..3 : files[k].status = "done"

====
